---- MODULE Spec2Model ----
(***************************************************************************)
(* MedCP (server/main.py): the read-only safety gate in front of the       *)
(* knowledge graph and the clinical records database.                      *)
(*                                                                         *)
(* Query texts and namespaces are sequences of one-character strings, so   *)
(* that the regular expressions, str.strip, str.upper, str.startswith and  *)
(* str.endswith of the source are computed character by character.         *)
(***************************************************************************)
EXTENDS Integers, Sequences, FiniteSets, TLC

VARIABLES
    pc,          \* position of main(): start, configured, created, running, failed
                 \* ("idle" where only a pure function is applied)
    error,       \* the exception main() ended with, "" when none
    config,      \* MedCPConfig: knowledge_graph, clinical_records, namespace
    kg_driver,   \* create_medcp_server's kg_driver: "None" or "driver"
    tools,       \* the tools registered on the FastMCP object
    call,        \* the tool call in flight (one handler invocation)
    openConns,   \* pymssql connections opened and not closed
    ncalls,      \* tool calls served so far
    input,       \* argument of the pure function under check
    output,      \* its result
    applied      \* the pure function applied to input, "none" before

vars == <<pc, error, config, kg_driver, tools, call, openConns, ncalls,
          input, output, applied>>

serverVars == <<pc, error, config, kg_driver, tools, call, openConns, ncalls>>
pureVars == <<input, output, applied>>

-----------------------------------------------------------------------------
(* Bounds of the model *)

\* query texts are concatenations of at most MaxPieces pieces
MaxPieces == 3
\* namespaces are at most MaxNsLen characters long
MaxNsLen == 4
\* tool calls served by one server run
MaxCalls == 2
\* label lists of a raw schema hold at most MaxLabels labels
MaxLabels == 1

-----------------------------------------------------------------------------
(* Characters: Python's str.upper, str.lower, \w and \s on the ASCII range *)

LowerLetters ==
    <<"a","b","c","d","e","f","g","h","i","j","k","l","m",
      "n","o","p","q","r","s","t","u","v","w","x","y","z">>

UpperLetters ==
    <<"A","B","C","D","E","F","G","H","I","J","K","L","M",
      "N","O","P","Q","R","S","T","U","V","W","X","Y","Z">>

Digits == {"0","1","2","3","4","5","6","7","8","9"}

Range(s) == {s[i] : i \in DOMAIN s}

UpperChar(c) ==
    IF \E i \in 1..26 : LowerLetters[i] = c
    THEN UpperLetters[CHOOSE i \in 1..26 : LowerLetters[i] = c]
    ELSE c

LowerChar(c) ==
    IF \E i \in 1..26 : UpperLetters[i] = c
    THEN LowerLetters[CHOOSE i \in 1..26 : UpperLetters[i] = c]
    ELSE c

\* \w of the re module
IsWordChar(c) ==
    c \in Range(LowerLetters) \cup Range(UpperLetters) \cup Digits \cup {"_"}

\* \s of the re module, and the characters str.strip removes
IsSpaceChar(c) == c \in {" ", "\t", "\n", "\r"}

\* str.upper
ToUpper(s) == [i \in 1..Len(s) |-> UpperChar(s[i])]

ToLower(s) == [i \in 1..Len(s) |-> LowerChar(s[i])]

\* str.strip
Strip(s) ==
    LET nonSpace == {i \in 1..Len(s) : ~IsSpaceChar(s[i])}
    IN IF nonSpace = {} THEN <<>>
       ELSE LET lo == CHOOSE i \in nonSpace : \A j \in nonSpace : i <= j
                hi == CHOOSE i \in nonSpace : \A j \in nonSpace : j <= i
            IN SubSeq(s, lo, hi)

\* str.startswith
StartsWith(s, p) == Len(p) <= Len(s) /\ SubSeq(s, 1, Len(p)) = p

\* str.endswith
EndsWith(s, p) ==
    Len(p) <= Len(s) /\ SubSeq(s, Len(s) - Len(p) + 1, Len(s)) = p

\* \b of the re module between s[i] and s[i+1]; outside the text counts as non-word
IsWordAt(s, i) == i \in 1..Len(s) /\ IsWordChar(s[i])

WordBoundary(s, i) == IsWordAt(s, i) # IsWordAt(s, i + 1)

-----------------------------------------------------------------------------
(* _is_write_query *)

\* the alternatives of the pattern of _is_write_query, in its order
WriteKeywords ==
    << <<"M","E","R","G","E">>,
       <<"C","R","E","A","T","E">>,
       <<"S","E","T">>,
       <<"D","E","L","E","T","E">>,
       <<"R","E","M","O","V","E">>,
       <<"A","D","D">>,
       <<"I","N","S","E","R","T">>,
       <<"U","P","D","A","T","E">>,
       <<"D","R","O","P">>,
       <<"A","L","T","E","R">>,
       <<"T","R","U","N","C","A","T","E">>,
       <<"G","R","A","N","T">>,
       <<"R","E","V","O","K","E">>,
       <<"E","X","E","C">>,
       <<"E","X","E","C","U","T","E">>,
       <<"S","P","_">> >>

\* \b kw \b matches at s[i..i+Len(kw)-1] under re.IGNORECASE
KeywordMatchAt(s, kw, i) ==
    /\ i >= 1
    /\ i + Len(kw) - 1 <= Len(s)
    /\ \A j \in 1..Len(kw) : UpperChar(s[i + j - 1]) = kw[j]
    /\ WordBoundary(s, i - 1)
    /\ WordBoundary(s, i + Len(kw) - 1)

\* the pattern without its \b anchors: a keyword anywhere, also inside a word
_is_write_query_NoBoundary(query) ==
    \E k \in DOMAIN WriteKeywords :
        \E i \in 1..Len(query) :
            /\ i + Len(WriteKeywords[k]) - 1 <= Len(query)
            /\ \A j \in 1..Len(WriteKeywords[k]) :
                  UpperChar(query[i + j - 1]) = WriteKeywords[k][j]

_is_write_query(query) ==
    \E k \in DOMAIN WriteKeywords :
        \E i \in 1..Len(query) : KeywordMatchAt(query, WriteKeywords[k], i)

-----------------------------------------------------------------------------
(* ClinicalQueryValidator.is_read_only_clinical_query *)

allowed_statements ==
    { <<"S","E","L","E","C","T">>, <<"W","I","T","H">>,
      <<"D","E","C","L","A","R","E">> }

\* the pattern without \s*: only a word character right after the semicolon
has_dangerous_chars_NoSpace(s) ==
    \E i \in 1..Len(s) : s[i] = ";" /\ IsWordAt(s, i + 1)

\* re.search(r';\s*\w+', s): a semicolon, any whitespace, then a word character
has_dangerous_chars(s) ==
    \E i \in 1..Len(s) :
        /\ s[i] = ";"
        /\ \E j \in (i + 1)..Len(s) :
              /\ IsWordChar(s[j])
              /\ \A k \in (i + 1)..(j - 1) : IsSpaceChar(s[k])

\* the validator without its statement-prefix check
is_read_only_clinical_query_NoPrefix(query) ==
    LET clean_query == ToUpper(Strip(query))
    IN ~_is_write_query(query) /\ ~has_dangerous_chars(clean_query)

is_read_only_clinical_query(query) ==
    LET clean_query == ToUpper(Strip(query))
    IN IF ~(\E stmt \in allowed_statements : StartsWith(clean_query, stmt))
       THEN FALSE
       ELSE IF _is_write_query(query)
       THEN FALSE
       ELSE IF has_dangerous_chars(clean_query)
       THEN FALSE
       ELSE TRUE

-----------------------------------------------------------------------------
(* _format_namespace *)

\* a dash appended whether or not the namespace already ends in one
_format_namespace_AlwaysAppend(namespace) ==
    IF namespace # <<>> THEN namespace \o <<"-">> ELSE <<>>

_format_namespace(namespace) ==
    IF namespace # <<>>
    THEN IF EndsWith(namespace, <<"-">>) THEN namespace ELSE namespace \o <<"-">>
    ELSE <<>>

-----------------------------------------------------------------------------
(* clean_schema, nested in get_knowledge_graph_schema.  A dict is a function  *)
(* on its keys, a list a sequence.                                           *)

\* the two attributes kept of a property's info
KeptAttrs == {"indexed", "type"}

\* cp / crp: the kept attributes the property info has
cp(pinfo) == [attr \in KeptAttrs \cap DOMAIN pinfo |-> pinfo[attr]]

\* the emptiness test made on the raw info instead of on the cleaned one
clean_props_TestsRaw(props) ==
    [pname \in {q \in DOMAIN props : DOMAIN props[q] # {}} |->
        cp(props[pname])]

\* clean_props / clean_rprops: the properties whose cleaned info is not empty
clean_props(props) ==
    [pname \in {q \in DOMAIN props : DOMAIN cp(props[q]) # {}} |->
        cp(props[pname])]

\* cr: direction, non-empty labels, non-empty cleaned properties
cr(rel) ==
    LET keys ==
            ({"direction"} \cap DOMAIN rel)
            \cup (IF "labels" \in DOMAIN rel /\ Len(rel["labels"]) > 0
                  THEN {"labels"} ELSE {})
            \cup (IF "properties" \in DOMAIN rel
                     /\ DOMAIN clean_props(rel["properties"]) # {}
                  THEN {"properties"} ELSE {})
    IN [k \in keys |->
          IF k = "properties" THEN clean_props(rel[k]) ELSE rel[k]]

\* rels_out: the relationships whose cleaned form is not empty
rels_out(rels) ==
    [rel_name \in {r \in DOMAIN rels : DOMAIN cr(rels[r]) # {}} |->
        cr(rels[rel_name])]

\* new_entry; entry["type"] is read unconditionally
new_entry(entry) ==
    LET keys ==
            {"type"}
            \cup ({"count"} \cap DOMAIN entry)
            \cup (IF "labels" \in DOMAIN entry /\ Len(entry["labels"]) > 0
                  THEN {"labels"} ELSE {})
            \cup (IF "properties" \in DOMAIN entry
                     /\ DOMAIN clean_props(entry["properties"]) # {}
                  THEN {"properties"} ELSE {})
            \cup (IF "relationships" \in DOMAIN entry
                     /\ DOMAIN rels_out(entry["relationships"]) # {}
                  THEN {"relationships"} ELSE {})
    IN [k \in keys |->
          IF k = "properties" THEN clean_props(entry[k])
          ELSE IF k = "relationships" THEN rels_out(entry[k])
          ELSE entry[k]]

\* entry["type"] of an entry without a type tag raises KeyError
clean_schema_raises(schema) ==
    \E key \in DOMAIN schema : "type" \notin DOMAIN schema[key]

clean_schema(schema) == [key \in DOMAIN schema |-> new_entry(schema[key])]

-----------------------------------------------------------------------------
(* Query texts the tools and the validators are given *)

\* SELECT, with, Declare, space, semicolon, a word, a quote, sp_, Update, DROP
Pieces ==
    << <<"S","E","L","E","C","T">>,
       <<"w","i","t","h">>,
       <<"D","e","c","l","a","r","e">>,
       <<" ">>,
       <<";">>,
       <<"x","1">>,
       <<"'">>,
       <<"s","p","_">>,
       <<"U","p","d","a","t","e">>,
       <<"D","R","O","P">> >>

RECURSIVE Concat(_)
Concat(ss) == IF ss = <<>> THEN <<>> ELSE Head(ss) \o Concat(Tail(ss))

PieceTexts ==
    { Concat([i \in DOMAIN f |-> Pieces[f[i]]]) :
        f \in UNION { [1..k -> DOMAIN Pieces] : k \in 0..MaxPieces } }

\* first letter upper case, the rest lower case
Capitalised(w) ==
    [i \in 1..Len(w) |-> IF i = 1 THEN UpperChar(w[i]) ELSE LowerChar(w[i])]

Cases(w) == {ToUpper(w), ToLower(w), Capitalised(w)}

\* every alternative of the pattern in three letter cases, at the start of the
\* text or after "SELECT ", between a word character, an underscore, a quote,
\* a space or nothing
KeywordTexts ==
    { lead \o pre \o w \o post :
        lead \in { <<>>, <<"S","E","L","E","C","T"," ">> },
        pre \in { <<>>, <<"x">>, <<"_">>, <<"'">> },
        w \in UNION { Cases(WriteKeywords[k]) : k \in DOMAIN WriteKeywords },
        post \in { <<>>, <<"x">>, <<"_">>, <<"'">>, <<" ">> } }

\* statements with a semicolon: after the statement nothing, blanks or a newline,
\* and then nothing, a word, a quote, a second semicolon or a keyword
ChainTexts ==
    { lead \o mid \o <<";">> \o ws \o tail :
        lead \in { <<"S","E","L","E","C","T">>, <<"w","i","t","h">>, <<"x","1">> },
        mid \in { <<>>, <<" ","1">>, <<" ","1"," ">> },
        ws \in { <<>>, <<" ">>, <<" ","\n","\t">> },
        tail \in { <<>>, <<"x","1">>, <<"'">>, <<";">>, <<"D","R","O","P">> } }

Texts == PieceTexts \cup KeywordTexts \cup ChainTexts

-----------------------------------------------------------------------------
(* Namespaces the operator supplies *)

NsChars == {"f", "o", "-"}

Namespaces == UNION { [1..n -> NsChars] : n \in 0..MaxNsLen }

-----------------------------------------------------------------------------
(* Raw schemas apoc.meta.schema returns.  An optional key is drawn as a      *)
(* sequence: empty when the key is absent, its value when present.           *)

MakeDict(opts) ==
    [k \in {q \in DOMAIN opts : Len(opts[q]) = 1} |-> opts[k][1]]

Optional(S) == {<<>>} \cup {<<v>> : v \in S}

LabelLists == { [i \in 1..n |-> "A"] : n \in 0..MaxLabels }

\* a property's info: empty, only metadata that is dropped, only a kept
\* attribute, kept attributes and dropped metadata
RawInfos ==
    { [a \in S |-> IF a = "type" THEN "STRING" ELSE a = "indexed"] :
        S \in { {}, {"existence"}, {"type"}, {"indexed", "type", "existence"} } }

RawProps == {<<>>} \cup { [pname \in {"name"} |-> pinfo] : pinfo \in RawInfos }

RawRels ==
    { MakeDict([count |-> <<3>>, direction |-> d, labels |-> l, properties |-> p]) :
        d \in Optional({"out"}), l \in Optional(LabelLists), p \in Optional(RawProps) }

RawRelMaps == {<<>>} \cup { [rel_name \in {"TREATS"} |-> rel] : rel \in RawRels }

RawEntries ==
    { MakeDict([type |-> t, count |-> c, labels |-> l, properties |-> p,
                relationships |-> r]) :
        t \in Optional({"node"}), c \in Optional({7}), l \in Optional(LabelLists),
        p \in Optional(RawProps), r \in Optional(RawRelMaps) }

\* a second entity: with nothing but its type tag, or without a type tag
SimpleEntries == { [type |-> "node"], [count |-> 7] }

RawSchemas ==
    {<<>>}
    \cup { [key \in {"Drug"} |-> e] : e \in RawEntries }
    \cup { [key \in {"Drug", "Gene"} |-> IF key = "Drug" THEN e ELSE g] :
             e \in RawEntries, g \in SimpleEntries }

-----------------------------------------------------------------------------
(* The server at rest and the pure functions at rest *)

\* no tool call in flight.  validated holds the text the validator was given
\* (<<text>>, or <<>> before it ran); sessions, conns and executed count the graph
\* sessions opened, the connections opened and the statements run by the call.
NoCall == [tool |-> "none", stage |-> "idle", query |-> <<>>, validated |-> <<>>,
           verdict |-> "none", sessions |-> 0, sessionOpen |-> FALSE, conns |-> 0,
           executed |-> 0, raised |-> "none", result |-> "none"]

NoConfig == [knowledge_graph |-> "None", clinical_records |-> "None",
             namespace |-> <<>>]

ServerIdle ==
    /\ pc = "idle"
    /\ error = ""
    /\ config = NoConfig
    /\ kg_driver = "None"
    /\ tools = {}
    /\ call = NoCall
    /\ openConns = 0
    /\ ncalls = 0

-----------------------------------------------------------------------------
(* Inputs of the server: environment, namespaces, queries of tool calls *)

\* an environment variable: unset (os.getenv gives None), empty, or non-empty
EnvValues == {"None", "", "set"}

KgEnvs == [uri : EnvValues, username : EnvValues, password : EnvValues,
           database : EnvValues]

CrEnvs == [server : EnvValues, database : EnvValues, username : EnvValues,
           password : EnvValues]

\* no namespace, the default of the __main__ block, a namespace given with its dash
ServerNamespaces ==
    { <<>>, <<"M","e","d","C","P">>, <<"f","o","o","-">> }

\* MATCH (n) RETURN n LIMIT 1
MatchQuery ==
    <<"M","A","T","C","H"," ","(","n",")"," ","R","E","T","U","R","N"," ",
      "n"," ","L","I","M","I","T"," ","1">>

\* MATCH (n) SET n.x = 1
SetQuery ==
    <<"M","A","T","C","H"," ","(","n",")"," ","S","E","T"," ","n",".","x",
      " ","="," ","1">>

\* SELECT * FROM Patients
SelectQuery ==
    <<"S","E","L","E","C","T"," ","*"," ","F","R","O","M"," ","P","a","t",
      "i","e","n","t","s">>

\* DELETE FROM Patients
DeleteQuery ==
    <<"D","E","L","E","T","E"," ","F","R","O","M"," ","P","a","t","i","e",
      "n","t","s">>

\* SELECT 1; DROP TABLE x
ChainedDropQuery ==
    <<"S","E","L","E","C","T"," ","1",";"," ","D","R","O","P"," ","T","A",
      "B","L","E"," ","x">>

\* select 1; select 2
ChainedSelectQuery ==
    <<"s","e","l","e","c","t"," ","1",";"," ","s","e","l","e","c","t"," ",
      "2">>

ServerQueries ==
    { MatchQuery, SetQuery, SelectQuery, DeleteQuery, ChainedDropQuery,
      ChainedSelectQuery }

-----------------------------------------------------------------------------
(* main: the configuration built from the environment *)

\* Python truthiness of an environment value
Truthy(v) == v = "set"

KgConfigured(kg_env) ==
    Truthy(kg_env.uri) /\ Truthy(kg_env.username) /\ Truthy(kg_env.password)

CrConfigured(cr_env) ==
    Truthy(cr_env.server) /\ Truthy(cr_env.database) /\ Truthy(cr_env.username)
    /\ Truthy(cr_env.password)

\* MedCPConfig(**config_dict) rejects database = None: the field is a str
ConfigValidates(kg_env) == KgConfigured(kg_env) => kg_env.database # "None"

\* main without its check that a database is configured
main_NoBackendCheck ==
    /\ pc = "start"
    /\ \E kg_env \in KgEnvs, cr_env \in CrEnvs, ns \in ServerNamespaces :
          /\ config' = [knowledge_graph |-> IF KgConfigured(kg_env) THEN "set" ELSE "None",
                        clinical_records |-> IF CrConfigured(cr_env) THEN "set" ELSE "None",
                        namespace |-> ns]
          /\ IF ~ConfigValidates(kg_env)
             THEN pc' = "failed" /\ error' = "ValidationError"
             ELSE pc' = "configured" /\ error' = ""
    /\ UNCHANGED <<kg_driver, tools, call, openConns, ncalls, pureVars>>

\* main up to the MedCPConfig it hands to create_medcp_server
main ==
    /\ pc = "start"
    /\ \E kg_env \in KgEnvs, cr_env \in CrEnvs, ns \in ServerNamespaces :
          /\ config' = [knowledge_graph |-> IF KgConfigured(kg_env) THEN "set" ELSE "None",
                        clinical_records |-> IF CrConfigured(cr_env) THEN "set" ELSE "None",
                        namespace |-> ns]
          /\ IF ~KgConfigured(kg_env) /\ ~CrConfigured(cr_env)
             THEN pc' = "failed" /\ error' = "ValueError"
             ELSE IF ~ConfigValidates(kg_env)
             THEN pc' = "failed" /\ error' = "ValidationError"
             ELSE pc' = "configured" /\ error' = ""
    /\ UNCHANGED <<kg_driver, tools, call, openConns, ncalls, pureVars>>

-----------------------------------------------------------------------------
(* create_medcp_server *)

GraphTools == {"get_knowledge_graph_schema", "query_knowledge_graph"}

ClinicalTools == {"query_clinical_records", "list_clinical_tables"}

AdHocTools == {"query_knowledge_graph", "query_clinical_records"}

\* the clinical tools registered under the guard of the graph tools
RegisteredTools_ClinicalUnderGraphGuard(prefix, driver, clinical_config) ==
    { [name |-> n, prefix |-> prefix] :
        n \in IF driver # "None" THEN GraphTools \cup ClinicalTools ELSE {} }

\* the @mcp.tool registrations under "if kg_driver:" and "if clinical_config:"
RegisteredTools(prefix, driver, clinical_config) ==
    { [name |-> n, prefix |-> prefix] :
        n \in (IF driver # "None" THEN GraphTools ELSE {})
              \cup (IF clinical_config # "None" THEN ClinicalTools ELSE {}) }

\* driver_ok: whether GraphDatabase.driver returns or raises
create_medcp_server ==
    /\ pc = "configured"
    /\ \E driver_ok \in BOOLEAN :
          LET namespace_prefix == _format_namespace(config.namespace)
              driver == IF config.knowledge_graph # "None" /\ driver_ok
                        THEN "driver" ELSE "None"
          IN IF config.knowledge_graph # "None" /\ ~driver_ok
             THEN /\ pc' = "failed"
                  /\ error' = "ToolError"
                  /\ UNCHANGED <<kg_driver, tools>>
             ELSE /\ pc' = "created"
                  /\ kg_driver' = driver
                  /\ tools' = RegisteredTools(namespace_prefix, driver,
                                              config.clinical_records)
                  /\ UNCHANGED error
    /\ UNCHANGED <<config, call, openConns, ncalls, pureVars>>

\* mcp.run()
mcp_run ==
    /\ pc = "created"
    /\ pc' = "running"
    /\ UNCHANGED <<error, config, kg_driver, tools, call, openConns, ncalls, pureVars>>

-----------------------------------------------------------------------------
(* The tool handlers.  One call is in flight at a time; a handler shares no   *)
(* mutable state with another call.                                          *)

Registered(name) == \E t \in tools : t.name = name

CanCall(name) ==
    /\ pc = "running"
    /\ call.stage = "idle"
    /\ ncalls < MaxCalls
    /\ Registered(name)

\* "if _is_write_query(cypher_query): raise ToolError"
GraphVerdict(cypher_query) ==
    IF _is_write_query(cypher_query) THEN "reject" ELSE "accept"

\* query_clinical_records checking for write keywords only
ClinicalVerdict_WriteCheckOnly(sql_query) ==
    IF _is_write_query(sql_query) THEN "reject" ELSE "accept"

\* "if not ClinicalQueryValidator.is_read_only_clinical_query(sql_query): raise ToolError"
ClinicalVerdict(sql_query) ==
    IF ~is_read_only_clinical_query(sql_query) THEN "reject" ELSE "accept"

\* the handler after its validator: at its try block, or left with a ToolError
Validated(tool, q, verdict) ==
    [NoCall EXCEPT !.tool = tool, !.query = q, !.validated = <<q>>,
                   !.verdict = verdict,
                   !.stage = IF verdict = "reject" THEN "done" ELSE "started",
                   !.raised = IF verdict = "reject" THEN "ToolError" ELSE "none",
                   !.result = IF verdict = "reject" THEN "ToolError" ELSE "none"]

\* the classes an exception is an instance of: ClientError is a Neo4jError (one
\* whose text may carry the ProcedureNotFound code), and everything a driver, a
\* cursor or the result processing raises is an Exception, ToolError included
Bases(exc) ==
    CASE exc \in {"ProcedureNotFound", "ClientError"} ->
            {"ClientError", "Neo4jError", "Exception"}
      [] exc = "Neo4jError" -> {"Neo4jError", "Exception"}
      [] OTHER -> {"Exception"}

\* "except ClientError ... except Neo4jError ... except Exception": each clause
\* raises ToolError
get_knowledge_graph_schema_except(exc) ==
    IF "ClientError" \in Bases(exc) THEN "ToolError"
    ELSE IF "Neo4jError" \in Bases(exc) THEN "ToolError"
    ELSE IF "Exception" \in Bases(exc) THEN "ToolError"
    ELSE exc

\* query_knowledge_graph with its "except Neo4jError" clause alone
query_knowledge_graph_except_Neo4jOnly(exc) ==
    IF "Neo4jError" \in Bases(exc) THEN "ToolError" ELSE exc

\* "except Neo4jError ... except Exception": each clause raises ToolError
query_knowledge_graph_except(exc) ==
    IF "Neo4jError" \in Bases(exc) THEN "ToolError"
    ELSE IF "Exception" \in Bases(exc) THEN "ToolError"
    ELSE exc

\* "except Exception as e: raise ToolError(...)" of query_clinical_records
query_clinical_records_except(exc) ==
    IF "Exception" \in Bases(exc) THEN "ToolError" ELSE exc

\* "except Exception as e: raise ToolError(...)" of list_clinical_tables
list_clinical_tables_except(exc) ==
    IF "Exception" \in Bases(exc) THEN "ToolError" ELSE exc

\* the except clauses of the handler of a tool
handler_except(tool, exc) ==
    CASE tool = "get_knowledge_graph_schema" -> get_knowledge_graph_schema_except(exc)
      [] tool = "query_knowledge_graph" -> query_knowledge_graph_except(exc)
      [] tool = "query_clinical_records" -> query_clinical_records_except(exc)
      [] tool = "list_clinical_tables" -> list_clinical_tables_except(exc)

\* get_knowledge_graph_schema is entered: it validates nothing
get_knowledge_graph_schema_enter ==
    /\ CanCall("get_knowledge_graph_schema")
    /\ call' = [NoCall EXCEPT !.tool = "get_knowledge_graph_schema",
                              !.stage = "started"]
    /\ UNCHANGED <<pc, error, config, kg_driver, tools, openConns, ncalls, pureVars>>

\* query_knowledge_graph is entered and runs _is_write_query
query_knowledge_graph_enter ==
    /\ CanCall("query_knowledge_graph")
    /\ \E q \in ServerQueries :
          call' = Validated("query_knowledge_graph", q, GraphVerdict(q))
    /\ UNCHANGED <<pc, error, config, kg_driver, tools, openConns, ncalls, pureVars>>

\* the connection opened before the validator has run
query_clinical_records_enter_ConnectFirst ==
    /\ CanCall("query_clinical_records")
    /\ \E q \in ServerQueries :
          call' = [Validated("query_clinical_records", q, ClinicalVerdict(q))
                     EXCEPT !.conns = 1]
    /\ openConns' = openConns + 1
    /\ UNCHANGED <<pc, error, config, kg_driver, tools, ncalls, pureVars>>

\* query_clinical_records is entered and runs the clinical query validator
query_clinical_records_enter ==
    /\ CanCall("query_clinical_records")
    /\ \E q \in ServerQueries :
          call' = Validated("query_clinical_records", q, ClinicalVerdict(q))
    /\ UNCHANGED <<pc, error, config, kg_driver, tools, openConns, ncalls, pureVars>>

\* list_clinical_tables is entered: it validates nothing
list_clinical_tables_enter ==
    /\ CanCall("list_clinical_tables")
    /\ call' = [NoCall EXCEPT !.tool = "list_clinical_tables", !.stage = "started"]
    /\ UNCHANGED <<pc, error, config, kg_driver, tools, openConns, ncalls, pureVars>>

\* "with kg_driver.session(...) as session": the session opens, or raises
kg_driver_session ==
    /\ call.tool \in GraphTools
    /\ call.stage = "started"
    /\ \E outcome \in {"ok", "Neo4jError", "Exception"} :
          call' = IF outcome = "ok"
                  THEN [call EXCEPT !.stage = "session", !.sessionOpen = TRUE,
                                    !.sessions = @ + 1]
                  ELSE [call EXCEPT !.stage = "done", !.raised = outcome,
                                    !.result = handler_except(call.tool, outcome)]
    /\ UNCHANGED <<pc, error, config, kg_driver, tools, openConns, ncalls, pureVars>>

\* query_knowledge_graph: session.execute_read returns the records or raises; the
\* with block releases the session either way
query_knowledge_graph_execute ==
    /\ call.tool = "query_knowledge_graph"
    /\ call.stage = "session"
    /\ \E outcome \in {"ok", "Neo4jError", "Exception"} :
          call' = [call EXCEPT !.stage = "done", !.sessionOpen = FALSE,
                               !.executed = @ + 1,
                               !.raised = IF outcome = "ok" THEN "none" ELSE outcome,
                               !.result = IF outcome = "ok" THEN "payload"
                                          ELSE query_knowledge_graph_except(outcome)]
    /\ UNCHANGED <<pc, error, config, kg_driver, tools, openConns, ncalls, pureVars>>

\* get_knowledge_graph_schema: apoc.meta.schema returns a raw schema, which
\* clean_schema cleans, or the call raises; every exception becomes a ToolError
get_knowledge_graph_schema_execute ==
    /\ call.tool = "get_knowledge_graph_schema"
    /\ call.stage = "session"
    /\ \E outcome \in {"ok", "ProcedureNotFound", "ClientError", "Neo4jError",
                       "Exception"}, schema \in RawSchemas :
          LET exc == IF outcome # "ok" THEN outcome
                     ELSE IF clean_schema_raises(schema) THEN "KeyError"
                     ELSE "none"
          IN  call' = [call EXCEPT !.stage = "done", !.sessionOpen = FALSE,
                                   !.executed = @ + 1,
                                   !.raised = exc,
                                   !.result = IF exc = "none" THEN "payload"
                                              ELSE get_knowledge_graph_schema_except(exc)]
    /\ UNCHANGED <<pc, error, config, kg_driver, tools, openConns, ncalls, pureVars>>

\* get_clinical_records_connection inside the handler's try block: pymssql.connect
\* returns a connection, or raises and the function raises ToolError in its place,
\* which the handler's "except Exception" catches like any other exception
get_clinical_records_connection ==
    /\ call.tool \in ClinicalTools
    /\ call.stage = "started"
    /\ \E ok \in BOOLEAN :
          IF ok
          THEN /\ call' = [call EXCEPT !.stage = "connected", !.conns = @ + 1]
               /\ openConns' = openConns + 1
          ELSE /\ call' = [call EXCEPT !.stage = "done", !.raised = "ToolError",
                                       !.result = handler_except(call.tool, "ToolError")]
               /\ UNCHANGED openConns
    /\ UNCHANGED <<pc, error, config, kg_driver, tools, ncalls, pureVars>>

\* conn.cursor(), cursor.execute, cursor.fetchall, the formatting of the rows, then
\* cursor.close() and conn.close(); an exception anywhere before the two close
\* calls goes to "except Exception", which closes nothing
ClinicalExecuted(outcome) ==
    /\ call' = [call EXCEPT !.stage = "done",
                            !.executed = IF outcome = "cursor_error"
                                         THEN @ ELSE @ + 1,
                            !.raised = IF outcome = "ok" THEN "none" ELSE outcome,
                            !.result = IF outcome = "ok" THEN "payload"
                                       ELSE handler_except(call.tool, outcome)]
    /\ openConns' = IF outcome = "ok" THEN openConns - 1 ELSE openConns

ClinicalOutcomes == {"ok", "cursor_error", "execute_error", "fetchall_error",
                     "format_error"}

\* query_clinical_records runs sql_query on its connection
query_clinical_records_execute ==
    /\ call.tool = "query_clinical_records"
    /\ call.stage = "connected"
    /\ \E outcome \in ClinicalOutcomes : ClinicalExecuted(outcome)
    /\ UNCHANGED <<pc, error, config, kg_driver, tools, ncalls, pureVars>>

\* list_clinical_tables runs its INFORMATION_SCHEMA.TABLES query on its connection
list_clinical_tables_execute ==
    /\ call.tool = "list_clinical_tables"
    /\ call.stage = "connected"
    /\ \E outcome \in ClinicalOutcomes : ClinicalExecuted(outcome)
    /\ UNCHANGED <<pc, error, config, kg_driver, tools, ncalls, pureVars>>

\* the handler returns its ToolResult or its ToolError to the client
Return ==
    /\ call.stage = "done"
    /\ call' = NoCall
    /\ ncalls' = ncalls + 1
    /\ UNCHANGED <<pc, error, config, kg_driver, tools, openConns, pureVars>>

Init ==
    /\ pc = "start"
    /\ error = ""
    /\ config = NoConfig
    /\ kg_driver = "None"
    /\ tools = {}
    /\ call = NoCall
    /\ openConns = 0
    /\ ncalls = 0
    /\ input = <<>>
    /\ output = "none"
    /\ applied = "none"

Next ==
    \/ main
    \/ create_medcp_server
    \/ mcp_run
    \/ get_knowledge_graph_schema_enter
    \/ query_knowledge_graph_enter
    \/ query_clinical_records_enter
    \/ list_clinical_tables_enter
    \/ kg_driver_session
    \/ query_knowledge_graph_execute
    \/ get_knowledge_graph_schema_execute
    \/ get_clinical_records_connection
    \/ query_clinical_records_execute
    \/ list_clinical_tables_execute
    \/ Return

Spec == Init /\ [][Next]_vars

-----------------------------------------------------------------------------
(* Claims about the server, checked under Spec *)

ToolNames == {t.name : t \in tools}

\* C1: a call of query_knowledge_graph or query_clinical_records holds a result
\* payload only if, earlier in that call, the backend's validator was given that
\* very query text and accepted it (_is_write_query false for the graph,
\* is_read_only_clinical_query true for the clinical records).
C1_PayloadOnlyAfterAccept ==
    (call.tool \in AdHocTools /\ call.result = "payload") =>
        /\ call.validated = <<call.query>>
        /\ call.verdict = "accept"
        /\ call.tool = "query_knowledge_graph" => ~_is_write_query(call.query)
        /\ call.tool = "query_clinical_records" =>
              is_read_only_clinical_query(call.query)

\* query_clinical_records returned the rows of SELECT * FROM Patients
C1_Witness ==
    /\ call.tool = "query_clinical_records"
    /\ call.query = SelectQuery
    /\ call.result = "payload"

\* C2: a call whose query the validator rejected ends with a ToolError and has
\* opened no graph session, opened no connection and run no statement; whatever
\* call has touched a backend was accepted first.
C2_RejectedTouchesNoBackend ==
    call.tool \in AdHocTools =>
        /\ call.verdict = "reject" =>
              /\ call.stage = "done"
              /\ call.result = "ToolError"
              /\ call.sessions = 0
              /\ call.conns = 0
              /\ call.executed = 0
        /\ (call.sessions > 0 \/ call.conns > 0 \/ call.executed > 0) =>
              call.verdict = "accept"

\* query_clinical_records("DELETE FROM Patients") ended with a ToolError
C2_Witness ==
    /\ call.tool = "query_clinical_records"
    /\ call.query = DeleteQuery
    /\ call.verdict = "reject"
    /\ call.result = "ToolError"

\* the tool set the registration rule gives for the configuration and the driver
RuleTools ==
    (IF config.knowledge_graph # "None" /\ kg_driver # "None"
     THEN GraphTools ELSE {})
    \cup (IF config.clinical_records # "None" THEN ClinicalTools ELSE {})

\* GraphDatabase.driver raised during construction
DriverFailed == error = "ToolError"

\* C7 as stated: after construction the tool set is the graph tools iff a graph
\* configuration is present and its driver was constructed, plus the clinical
\* tools iff a clinical configuration is present; when the driver construction
\* fails and a clinical configuration is present, construction still completes,
\* with the clinical tools registered.
C7_DriverFailureSkipsGraphTools ==
    /\ pc \in {"created", "running"} => ToolNames = RuleTools
    /\ (DriverFailed /\ config.clinical_records # "None") =>
          pc \in {"created", "running"} /\ ToolNames = ClinicalTools

\* C7 amended: whenever construction completes, the tool set is the graph tools
\* iff a graph configuration is present (its driver was then constructed) plus the
\* clinical tools iff a clinical configuration is present; when the graph driver
\* construction fails, create_medcp_server raises a ToolError and no server and
\* no tool is produced, a clinical configuration being present or not.
C7_RegisteredTools ==
    /\ pc \in {"created", "running"} =>
          /\ ToolNames = RuleTools
          /\ config.knowledge_graph # "None" => kg_driver = "driver"
          /\ \A t \in tools : t.prefix = _format_namespace(config.namespace)
    /\ DriverFailed =>
          /\ pc = "failed"
          /\ config.knowledge_graph # "None"
          /\ tools = {}

\* the driver construction failed with a clinical configuration present
C7_Witness ==
    /\ DriverFailed
    /\ pc = "failed"
    /\ config.clinical_records # "None"

\* C9: with neither backend configured, startup fails with a configuration error
\* (ValueError): the server is never created, never runs, and no server with an
\* empty tool set exists.
C9_NoBackendFailsStartup ==
    /\ (pc # "start" /\ config.knowledge_graph = "None"
          /\ config.clinical_records = "None")
       => (pc = "failed" /\ error = "ValueError" /\ tools = {})
    /\ pc \in {"created", "running"} => tools # {}

\* main was started with neither backend configured
C9_Witness ==
    /\ pc = "failed"
    /\ error = "ValueError"
    /\ config.knowledge_graph = "None"
    /\ config.clinical_records = "None"

\* C11: when a call of query_clinical_records or list_clinical_tables returns, by
\* its result or by an error raised by cursor creation, execute or fetchall, the
\* connection it opened is closed: between calls and at every return no
\* connection is open.
C11_ConnectionClosedOnReturn ==
    call.stage \in {"done", "idle"} => openConns = 0

\* what a handler may hand to the client: nothing yet, its payload, or a ToolError
ClientResults == {"none", "payload", "ToolError"}

\* a call that failed: its validator rejected the query, or something was raised
\* while it connected, executed or processed the result
CallFailed(c) == c.verdict = "reject" \/ c.raised # "none"

\* a failing call has ended, and ended with a ToolError; nothing but a payload or
\* a ToolError ever leaves a handler; the server is still running its tools
C12_FailureEndsInToolError ==
    /\ call.result \in ClientResults
    /\ CallFailed(call) => /\ call.stage = "done"
                           /\ call.result = "ToolError"
                           /\ pc = "running"
                           /\ Registered(call.tool)

\* the step that returns a failed call to the client leaves the server running
\* with the same tools, driver and configuration, and with no call in progress
C12_FailureLeavesServerServing ==
    (CallFailed(call) /\ call' # call) =>
        /\ call' = NoCall
        /\ pc' = "running"
        /\ tools' = tools
        /\ kg_driver' = kg_driver
        /\ config' = config

\* C12: every failing call of any of the four tools (validation rejection,
\* connection failure, or an exception raised by the backend during execution or
\* result processing) ends with a ToolError and with nothing else: no raw driver
\* or backend exception reaches the client, and after the failure the server is
\* running with the same tools, ready for the next call.
C12_ToolErrorOnEveryFailure ==
    []C12_FailureEndsInToolError /\ [][C12_FailureLeavesServerServing]_vars

\* a second call fails with a raw exception of the graph driver and ends with a
\* ToolError, after a clinical call that failed during execution was returned
C12_Witness ==
    /\ ncalls = 1
    /\ openConns = 1
    /\ call.tool = "query_knowledge_graph"
    /\ call.raised = "Exception"
    /\ call.executed = 1
    /\ call.result = "ToolError"

-----------------------------------------------------------------------------
(* The validators applied to a query text *)

InitValidator ==
    /\ ServerIdle
    /\ input \in Texts
    /\ output = "none"
    /\ applied = "none"

ApplyIsWriteQuery ==
    /\ applied = "none"
    /\ applied' = "_is_write_query"
    /\ output' = _is_write_query(input)
    /\ UNCHANGED <<input, serverVars>>

ApplyIsReadOnlyClinicalQuery ==
    /\ applied = "none"
    /\ applied' = "is_read_only_clinical_query"
    /\ output' = is_read_only_clinical_query(input)
    /\ UNCHANGED <<input, serverVars>>

NextValidator == ApplyIsWriteQuery \/ ApplyIsReadOnlyClinicalQuery

SpecValidator == InitValidator /\ [][NextValidator]_vars

-----------------------------------------------------------------------------
(* Claims about the validators, checked under SpecValidator *)

\* the end of the run of word characters that starts at s[i]
RECURSIVE WordEnd(_, _)
WordEnd(s, i) ==
    IF i < Len(s) /\ IsWordChar(s[i + 1]) THEN WordEnd(s, i + 1) ELSE i

\* the whole words of s (maximal runs of letters, digits and underscores), upper-cased
WholeWords(s) ==
    { ToUpper(SubSeq(s, i, WordEnd(s, i))) :
        i \in { k \in 1..Len(s) :
                  IsWordChar(s[k]) /\ (k = 1 \/ ~IsWordChar(s[k - 1])) } }

\* the fifteen keywords the claim lists
Vocabulary ==
    { <<"M","E","R","G","E">>, <<"C","R","E","A","T","E">>, <<"S","E","T">>,
      <<"D","E","L","E","T","E">>, <<"R","E","M","O","V","E">>, <<"A","D","D">>,
      <<"I","N","S","E","R","T">>, <<"U","P","D","A","T","E">>,
      <<"D","R","O","P">>, <<"A","L","T","E","R">>,
      <<"T","R","U","N","C","A","T","E">>, <<"G","R","A","N","T">>,
      <<"R","E","V","O","K","E">>, <<"E","X","E","C">>,
      <<"E","X","E","C","U","T","E">> }

SpToken == <<"S","P","_">>

\* C3 as stated: _is_write_query is true when a keyword of the fifteen-word
\* vocabulary appears as a whole word (any case, anywhere) and false when none does.
C3_VocabularyOnly ==
    applied = "_is_write_query" =>
        output = (WholeWords(input) \cap Vocabulary # {})

\* C3 amended: _is_write_query is true exactly when a whole word of the text is,
\* in any letter case, one of the fifteen keywords or the bare three-character
\* token SP_; a keyword inside a longer identifier does not count.
C3_WholeWordKeyword ==
    applied = "_is_write_query" =>
        output = (WholeWords(input) \cap (Vocabulary \cup {SpToken}) # {})

\* a lower-case keyword between quotes was classified as a write
C3_Witness ==
    /\ applied = "_is_write_query"
    /\ output = TRUE
    /\ \E i \in 2..Len(input) :
          /\ input[i - 1] = "'"
          /\ IsWordChar(input[i])
          /\ LowerChar(input[i]) = input[i]
          /\ WordEnd(input, i) < Len(input)
          /\ input[WordEnd(input, i) + 1] = "'"
          /\ ToUpper(SubSeq(input, i, WordEnd(input, i))) \in Vocabulary

\* C4: a text holding an identifier that begins with SP_ (any case) is classified
\* as a write.
C4_SpPrefixIsWrite ==
    (applied = "_is_write_query"
        /\ \E w \in WholeWords(input) : StartsWith(w, SpToken))
    => output = TRUE

\* the statement prefixes the claims name
ClaimedPrefixes ==
    { <<"S","E","L","E","C","T">>, <<"W","I","T","H">>,
      <<"D","E","C","L","A","R","E">> }

\* the index of the first character of s at or after i that is no whitespace
RECURSIVE SkipSpace(_, _)
SkipSpace(s, i) ==
    IF i <= Len(s) /\ IsSpaceChar(s[i]) THEN SkipSpace(s, i + 1) ELSE i

\* s, leading whitespace and letter case aside, starts with one of the prefixes
HasClaimedPrefix(s) ==
    LET k == SkipSpace(s, 1)
    IN \E p \in ClaimedPrefixes :
          \A j \in 1..Len(p) :
              k + j - 1 <= Len(s) /\ UpperChar(s[k + j - 1]) = p[j]

\* C5: a text whose trimmed, upper-cased form starts with none of SELECT, WITH,
\* DECLARE is not read-only for is_read_only_clinical_query; the empty and the
\* whitespace-only text included.
C5_OtherPrefixRejected ==
    (applied = "is_read_only_clinical_query" /\ ~HasClaimedPrefix(input))
    => output = FALSE

\* a whitespace-only text was rejected
C5_Witness ==
    /\ applied = "is_read_only_clinical_query"
    /\ input # <<>>
    /\ \A i \in 1..Len(input) : IsSpaceChar(input[i])
    /\ output = FALSE

\* a semicolon of s is followed, after optional whitespace, by a word character
ChainForm(s) ==
    \E i \in 1..Len(s) :
        s[i] = ";" /\ IsWordAt(s, SkipSpace(s, i + 1))

\* s has exactly one semicolon and nothing but whitespace after it
SingleTrailingSemicolon(s) ==
    /\ Cardinality({i \in 1..Len(s) : s[i] = ";"}) = 1
    /\ \E i \in 1..Len(s) : s[i] = ";" /\ SkipSpace(s, i + 1) = Len(s) + 1

\* C6: is_read_only_clinical_query rejects every text in which a semicolon is
\* followed (after optional whitespace) by a word token, and accepts every text
\* that starts with an allowed prefix, holds no write keyword as a whole word and
\* whose only semicolon is a trailing one.
C6_ChainingGuard ==
    applied = "is_read_only_clinical_query" =>
        /\ ChainForm(input) => output = FALSE
        /\ ( /\ HasClaimedPrefix(input)
             /\ WholeWords(input) \cap (Vocabulary \cup {SpToken}) = {}
             /\ SingleTrailingSemicolon(input) )
           => output = TRUE

\* SELECT ... ; with whitespace around the trailing semicolon was accepted
C6_Witness ==
    /\ applied = "is_read_only_clinical_query"
    /\ StartsWith(input, <<"S","E","L","E","C","T">>)
    /\ SingleTrailingSemicolon(input)
    /\ input[Len(input)] = " "
    /\ output = TRUE

-----------------------------------------------------------------------------
(* _format_namespace applied to a namespace, and to its own result *)

InitNamespace ==
    /\ ServerIdle
    /\ input \in Namespaces
    /\ output = "none"
    /\ applied = "none"

ApplyFormatNamespace ==
    /\ applied = "none"
    /\ applied' = "_format_namespace"
    /\ output' = _format_namespace(input)
    /\ UNCHANGED <<input, serverVars>>

ApplyFormatNamespaceAgain ==
    /\ applied = "_format_namespace"
    /\ applied' = "_format_namespace twice"
    /\ input' = output
    /\ output' = _format_namespace(output)
    /\ UNCHANGED serverVars

NextNamespace == ApplyFormatNamespace \/ ApplyFormatNamespaceAgain

SpecNamespace == InitNamespace /\ [][NextNamespace]_vars

\* the number of dashes s ends in
RECURSIVE TrailingDashes(_)
TrailingDashes(s) ==
    IF s # <<>> /\ s[Len(s)] = "-"
    THEN 1 + TrailingDashes(SubSeq(s, 1, Len(s) - 1))
    ELSE 0

WithoutTrailingDashes(s) == SubSeq(s, 1, Len(s) - TrailingDashes(s))

foo == <<"f","o","o">>

\* C8 as stated: the prefix is empty for the empty namespace and otherwise ends
\* in exactly one dash however many dashes the operator supplied; "foo" and "foo-"
\* yield "foo-"; the function applied to its own output changes nothing.
C8_ExactlyOneDash ==
    /\ applied = "_format_namespace" =>
          /\ input = <<>> => output = <<>>
          /\ input # <<>> => TrailingDashes(output) = 1
          /\ input \in {foo, foo \o <<"-">>} => output = foo \o <<"-">>
    /\ applied = "_format_namespace twice" => output = input

\* C8 amended: the prefix is empty for the empty namespace and otherwise ends in a
\* dash: one dash is appended when the namespace does not end in one, and a
\* namespace that ends in dashes is returned as it is, all its dashes kept; "foo"
\* and "foo-" yield "foo-"; the function applied to its own output changes nothing.
C8_TrailingDashKept ==
    /\ applied = "_format_namespace" =>
          /\ input = <<>> => output = <<>>
          /\ input # <<>> =>
                /\ WithoutTrailingDashes(output) = WithoutTrailingDashes(input)
                /\ TrailingDashes(output) =
                      IF TrailingDashes(input) = 0 THEN 1 ELSE TrailingDashes(input)
          /\ input \in {foo, foo \o <<"-">>} => output = foo \o <<"-">>
    /\ applied = "_format_namespace twice" => output = input

\* a namespace supplied with two or more trailing dashes was formatted
C8_Witness ==
    /\ applied = "_format_namespace"
    /\ TrailingDashes(input) >= 2
    /\ output = input

-----------------------------------------------------------------------------
(* clean_schema applied to a raw schema, and to its own result *)

InitSchema ==
    /\ ServerIdle
    /\ input \in RawSchemas
    /\ output = "none"
    /\ applied = "none"

ApplyCleanSchema ==
    /\ applied = "none"
    /\ IF clean_schema_raises(input)
       THEN applied' = "clean_schema raised" /\ output' = "KeyError"
       ELSE applied' = "clean_schema" /\ output' = clean_schema(input)
    /\ UNCHANGED <<input, serverVars>>

ApplyCleanSchemaAgain ==
    /\ applied = "clean_schema"
    /\ input' = output
    /\ IF clean_schema_raises(output)
       THEN applied' = "clean_schema twice raised" /\ output' = "KeyError"
       ELSE applied' = "clean_schema twice" /\ output' = clean_schema(output)
    /\ UNCHANGED serverVars

NextSchema == ApplyCleanSchema \/ ApplyCleanSchemaAgain

SpecSchema == InitSchema /\ [][NextSchema]_vars

\* C10: clean_schema applied to its own output (of a raw schema whose entities all
\* carry a type tag) returns that output: the second pass raises nothing and
\* removes no field at the entity, property, relationship or relationship-property
\* level.
C10_CleanSchemaIdempotent ==
    /\ applied # "clean_schema twice raised"
    /\ applied = "clean_schema twice" => output = input

\* a cleaned schema with all three nesting levels went through a second pass
C10_Witness ==
    /\ applied = "clean_schema twice"
    /\ "Drug" \in DOMAIN input
    /\ "properties" \in DOMAIN input["Drug"]
    /\ "relationships" \in DOMAIN input["Drug"]
    /\ "properties" \in DOMAIN input["Drug"]["relationships"]["TREATS"]
    /\ output = input

====
